---- MODULE Spec2Model ----
(***************************************************************************)
(* Model of the capture pipeline of src-tauri/src/audio.rs: the shared     *)
(* RecordingHandle, start_recording / stop_recording / get_level as called *)
(* from arbitrary threads, the Stream Worker thread each successful start  *)
(* spawns, and the data callback of the platform stream a worker owns.     *)
(*                                                                         *)
(* Threads interleave at every access to shared state (the atomic flag and *)
(* the three mutexes); a step is one such access together with the         *)
(* thread-local code around it.  thread::sleep is a lower bound only, so   *)
(* the grace period of stop_recording and the 30 ms poll of the worker put *)
(* no constraint on the interleaving.                                      *)
(*                                                                         *)
(* f32 amplitudes are fixed-point integers: the float x is x * One.        *)
(***************************************************************************)
EXTENDS Integers, Sequences, FiniteSets

(* ------------------------------------------------------------------ *)
(* Bounds of the model                                                 *)
(* ------------------------------------------------------------------ *)

\* Start calls that get past their checks (one Stream Worker each).
MaxWorkers == 2

\* Blocks the data callbacks accept (read the flag as true) in one run.
MaxBlocks == 1

\* Calls of start_recording / stop_recording / get_level in one run, by
\* concurrent callers (Spec) and by a single calling thread (SpecSeq).
MaxCalls == 3

MaxSeqCalls == 4

\* Calls of update_level / get_level in one run of SpecLevel.
MaxLevelCalls == 2
MaxLockCalls == 3

\* Samples in a block given to update_level in SpecLevel.
MaxBlockLen == 2

\* Samples in the vectors enumerated in full as arguments in SpecFn.
MaxLen == 2

\* Samples in the longest of the vectors of one fixed shape in SpecFn.
MaxRun == 12

\* Frames in the WAV files read in SpecFn.
MaxFrames == 3

\* The largest of the consecutive sample counts given to
\* calculate_duration_ms in SpecFn.
MaxCount == 48

\* The threads that call start_recording / stop_recording / get_level.
Callers == {"c1", "c2"}

Workers == 1..MaxWorkers

(* ------------------------------------------------------------------ *)
(* Numbers                                                             *)
(* ------------------------------------------------------------------ *)

\* The fixed-point image of 1.0f32.
One == 100

WHISPER_SAMPLE_RATE == 16000

I16Max == 32767

U16Max == 65535

Min(a, b) == IF a <= b THEN a ELSE b

Max(a, b) == IF a >= b THEN a ELSE b

Abs(a) == IF a < 0 THEN -a ELSE a

\* Division truncating toward zero, as `as` casts and integer division do.
TruncDiv(a, b) == IF a >= 0 THEN a \div b ELSE -((-a) \div b)

RECURSIVE Sum(_)
Sum(s) == IF s = <<>> THEN 0 ELSE Head(s) + Sum(Tail(s))

\* floor(sqrt(n)) for 0 <= n; the search is bounded by hi with hi*hi >= n.
ISqrt(n, hi) == CHOOSE r \in 0..hi : r * r <= n /\ (r + 1) * (r + 1) > n

(* ------------------------------------------------------------------ *)
(* Device Directory                                                    *)
(* ------------------------------------------------------------------ *)

NoDevice == "<none>"

\* The platform: its default input device (or NoDevice) and its enumeration.
Host == [default |-> "usb", devices |-> {"usb", "odd", "nocfg"}, enumerable |-> TRUE]

\* Names a caller passes to start_recording.
DeviceNames == {"", "default", "usb", "odd", "nocfg", "ghost"}

\* device.default_input_config(): sample format, rate, channels; ok = FALSE
\* when the query fails.
DefaultInputConfig(dev) ==
    CASE dev = "usb"   -> [ok |-> TRUE,  format |-> "I16", rate |-> 48000, channels |-> 2]
      [] dev = "odd"   -> [ok |-> TRUE,  format |-> "I32", rate |-> 16000, channels |-> 1]
      [] OTHER         -> [ok |-> FALSE, format |-> "",    rate |-> 0,     channels |-> 0]

\* get_device_by_name with the default device as the fallback of a name that
\* matches no device.
GetDeviceOrDefault(h, name) ==
    IF name = "" \/ name = "default"
    THEN IF h.default # NoDevice
         THEN [ok |-> TRUE, dev |-> h.default, err |-> ""]
         ELSE [ok |-> FALSE, dev |-> NoDevice, err |-> "No default input device"]
    ELSE IF ~h.enumerable
    THEN [ok |-> FALSE, dev |-> NoDevice, err |-> "DevicesError"]
    ELSE IF name \in h.devices
         THEN [ok |-> TRUE, dev |-> name, err |-> ""]
         ELSE IF h.default # NoDevice
         THEN [ok |-> TRUE, dev |-> h.default, err |-> ""]
         ELSE [ok |-> FALSE, dev |-> NoDevice, err |-> "Device not found"]

\* get_device_by_name: the device, or the AppError::Audio message; the `?` on
\* host.input_devices() returns the platform's DevicesError.
get_device_by_name(h, name) ==
    IF name = "" \/ name = "default"
    THEN IF h.default # NoDevice
         THEN [ok |-> TRUE, dev |-> h.default, err |-> ""]
         ELSE [ok |-> FALSE, dev |-> NoDevice, err |-> "No default input device"]
    ELSE IF ~h.enumerable
    THEN [ok |-> FALSE, dev |-> NoDevice, err |-> "DevicesError"]
    ELSE IF name \in h.devices
         THEN [ok |-> TRUE, dev |-> name, err |-> ""]
         ELSE [ok |-> FALSE, dev |-> NoDevice, err |-> "Device not found"]

(* ------------------------------------------------------------------ *)
(* Sample Normalizer                                                   *)
(* ------------------------------------------------------------------ *)

\* The I16 callback's  s as f32 / i16::MAX as f32.
FromI16(v) == TruncDiv(v * One, I16Max)

\* The U16 callback's  (s as f32 / u16::MAX as f32) * 2.0 - 1.0.
FromU16(u) == TruncDiv(u * 2 * One, U16Max) - One

\* 1.0 in units of 2^-15: f32 carries 24 bits, so two quotients that differ
\* in these units differ as f32 too.
Fine == 32768

\* The same quotients in units of 2^-15.
I16Float(v) == TruncDiv(v * Fine, I16Max)

U16Float(u) == TruncDiv(u * Fine, U16Max) * 2 - Fine

ToFloat(format, raw) ==
    [i \in 1..Len(raw) |->
        CASE format = "I16" -> FromI16(raw[i])
          [] format = "U16" -> FromU16(raw[i])
          [] OTHER          -> raw[i]]

\* data.chunks(channels).map(|chunk| chunk.iter().sum() / channels): the last
\* chunk may be short and is still divided by `channels`.
Downmix(data, channels) ==
    LET n == (Len(data) + channels - 1) \div channels
        chunk(k) == SubSeq(data, (k - 1) * channels + 1, Min(k * channels, Len(data)))
    IN  [k \in 1..n |-> TruncDiv(Sum(chunk(k)), channels)]

\* resample returning Vec::with_capacity(len), an empty vector, at equal rates.
resampleEmptyCopy(s, from_rate, to_rate) ==
    IF from_rate = to_rate THEN <<>>
    ELSE LET new_len == (Len(s) * to_rate) \div from_rate
             at(i) ==
                 LET idx_floor == (i * from_rate) \div to_rate
                     idx_ceil == Min(idx_floor + 1, Max(Len(s) - 1, 0))
                     num == (i * from_rate) % to_rate
                 IN  TruncDiv(s[idx_floor + 1] * (to_rate - num) + s[idx_ceil + 1] * num,
                              to_rate)
         IN  [k \in 1..new_len |-> at(k - 1)]

\* resample with new_len = floor(len / (ratio + 1)).
resampleShort(s, from_rate, to_rate) ==
    IF from_rate = to_rate THEN s
    ELSE LET new_len == (Len(s) * to_rate) \div (from_rate + to_rate)
             at(i) ==
                 LET idx_floor == (i * from_rate) \div to_rate
                     idx_ceil == Min(idx_floor + 1, Max(Len(s) - 1, 0))
                     num == (i * from_rate) % to_rate
                 IN  TruncDiv(s[idx_floor + 1] * (to_rate - num) + s[idx_ceil + 1] * num,
                              to_rate)
         IN  [k \in 1..new_len |-> at(k - 1)]

\* resample: identity at equal rates, else linear interpolation with
\* new_len = floor(len / (from / to)).
resample(s, from_rate, to_rate) ==
    IF from_rate = to_rate THEN s
    ELSE LET new_len == (Len(s) * to_rate) \div from_rate
             kept == {i \in 0..(new_len - 1) : (i * from_rate) \div to_rate < Len(s)}
             at(i) ==
                 LET idx_floor == (i * from_rate) \div to_rate
                     idx_ceil == Min(idx_floor + 1, Max(Len(s) - 1, 0))
                     num == (i * from_rate) % to_rate
                 IN  TruncDiv(s[idx_floor + 1] * (to_rate - num) + s[idx_ceil + 1] * num,
                              to_rate)
         IN  [k \in 1..Cardinality(kept) |-> at(k - 1)]

process_audio_data(data, source_rate, channels) ==
    resample(Downmix(data, channels), source_rate, WHISPER_SAMPLE_RATE)

(* ------------------------------------------------------------------ *)
(* WAV Codec                                                           *)
(* ------------------------------------------------------------------ *)

Clamp(x) == Max(-One, Min(x, One))

\* save_wav: the file written, 16 kHz mono 16-bit integer, each sample
\* (sample.clamp(-1.0, 1.0) * i16::MAX as f32) as i16.
save_wav(s) ==
    [channels |-> 1, sample_rate |-> WHISPER_SAMPLE_RATE, bits_per_sample |-> 16,
     sample_format |-> "Int",
     data |-> [i \in 1..Len(s) |-> TruncDiv(Clamp(s[i]) * I16Max, One)]]

\* max_val = 1 << (bits_per_sample - 1).
MaxVal(bits) == 2 ^ (bits - 1)

\* load_wav: the samples decoded, resampled when the stored rate is not
\* 16 kHz, then averaged over chunks of `channels` when there are several
\* channels.  A sample x is held as the integer x * one: an integer sample
\* s / max_val is exactly s with one = max_val, a float sample has one = One.
load_wav(file) ==
    LET decoded == file.data
        resampled == IF file.sample_rate # WHISPER_SAMPLE_RATE
                     THEN resample(decoded, file.sample_rate, WHISPER_SAMPLE_RATE)
                     ELSE decoded
        mono == IF file.channels > 1 THEN Downmix(resampled, file.channels) ELSE resampled
    IN  [one |-> IF file.sample_format = "Float" THEN One ELSE MaxVal(file.bits_per_sample),
         samples |-> mono]

\* calculate_duration_ms with the quotient rounded to the nearest.
calculate_duration_ms_rounded(sample_count) ==
    (sample_count * 1000 + WHISPER_SAMPLE_RATE \div 2) \div WHISPER_SAMPLE_RATE

calculate_duration_ms(sample_count) ==
    (sample_count * 1000) \div WHISPER_SAMPLE_RATE

(* ------------------------------------------------------------------ *)
(* Level Meter                                                         *)
(* ------------------------------------------------------------------ *)

MaxAbs(block) ==
    LET mags == {Abs(block[i]) : i \in 1..Len(block)}
    IN  IF mags = {} THEN 0 ELSE CHOOSE m \in mags : \A k \in mags : k <= m

\* sqrt(sum of squares / len), in fixed point.
Rms(block) ==
    ISqrt(Sum([i \in 1..Len(block) |-> block[i] * block[i]]) \div Len(block),
          MaxAbs(block))

\* update_level without its early return on an empty block: 0.0 / 0.0 is NaN
\* and NaN.min(1.0) is 1.0.
NewLevelUnguarded(old, block) ==
    IF block = <<>> THEN One ELSE Min(Rms(block) * 3, One)

\* update_level: the value current_level holds afterwards.
NewLevel(old, block) ==
    IF block = <<>> THEN old ELSE Min(Rms(block) * 3, One)

\* update_level storing `peak` without `.min(1.0)`.
NewPeakUnclamped(old, block) ==
    IF block = <<>> THEN old ELSE MaxAbs(block)

\* update_level as a peak-hold meter: the stored peak never falls.
NewPeakHold(old, block) ==
    IF block = <<>> THEN old ELSE Max(old, Min(MaxAbs(block), One))

\* update_level: the value peak_level holds afterwards.
NewPeak(old, block) ==
    IF block = <<>> THEN old ELSE Min(MaxAbs(block), One)

(* ------------------------------------------------------------------ *)
(* State                                                               *)
(* ------------------------------------------------------------------ *)

VARIABLES
    is_recording,   \* RecordingHandle.is_recording (AtomicBool)
    samples,        \* RecordingHandle.samples
    current_level,  \* RecordingHandle.current_level
    peak_level,     \* RecordingHandle.peak_level
    pc,             \* per caller thread: where it is in its call
    local,          \* per caller thread: locals of the call in progress
    wpc,            \* per Stream Worker: where the thread is
    wdev,           \* per Stream Worker: the device moved into the thread
    cpc,            \* per stream: where its data callback is
    cbuf,           \* per stream: `processed` of the invocation in progress
    accepted,       \* blocks accepted by the data callbacks so far
    measured,       \* history: non-empty blocks update_level has stored
    appended,       \* history: non-empty blocks appended to the buffer
    log,            \* history: the blocks appended since the buffer was last
                    \* cleared, in the order their appends took its lock
    held,           \* per thread: the mutexes of the handle it holds
    calls,          \* calls made so far
    ret,            \* the value the step just taken returned to its caller
    call            \* a call of a function that takes no handle: its name,
                    \* its arguments and, once it has returned, its result

vars == <<is_recording, samples, current_level, peak_level, pc, local, wpc, wdev,
          cpc, cbuf, accepted, measured, appended, log, held, calls, ret, call>>

shared == <<is_recording, samples, current_level, peak_level>>

\* The handle and the threads working on it.
handle == <<is_recording, samples, current_level, peak_level, pc, local, wpc, wdev,
            cpc, cbuf, accepted, measured, appended, log, held, calls, ret>>

\* dev: the device start_recording resolved; level: the level get_level read;
\* snap: the buffer when stop_recording flipped the flag (history).
NoLocal == [dev |-> "", level |-> 0, snap |-> <<>>]

\* What the step returned to its caller, NoRet when it returned from no
\* call: err is "" for Ok; v is the vector of stop_recording, (level, peak)
\* the pair of get_level.
NoRet == [op |-> "none", err |-> "", v |-> <<>>, level |-> 0, peak |-> 0]

\* No call of such a function is under way.
NoCall == [op |-> "none"]

Ok(op) == [NoRet EXCEPT !.op = op]

Err(op, e) == [NoRet EXCEPT !.op = op, !.err = e]

Spawned == {w \in Workers : wpc[w] # "none"}

Starting == {c \in Callers : pc[c] \in {"start_clear", "start_set"}}

\* Workers that own a built platform stream.
OwnsStream(w) == wpc[w] \in {"play", "loop", "emit"}

\* Workers whose stream has been started and not dropped.
Streaming(w) == wpc[w] \in {"loop", "emit"}

\* The three mutexes of RecordingHandle.
Mutexes == {"samples", "current_level", "peak_level"}

\* No thread holds a mutex.
NoneHeld == [c \in Callers |-> {}]

\* RecordingHandle::new(), and no thread in any call.
NewHandle ==
    /\ is_recording = FALSE
    /\ samples = <<>>
    /\ current_level = 0
    /\ peak_level = 0
    /\ pc = [c \in Callers |-> "idle"]
    /\ local = [c \in Callers |-> NoLocal]
    /\ wpc = [w \in Workers |-> "none"]
    /\ wdev = [w \in Workers |-> ""]
    /\ cpc = [w \in Workers |-> "idle"]
    /\ cbuf = [w \in Workers |-> <<>>]
    /\ accepted = 0
    /\ measured = 0
    /\ appended = 0
    /\ log = <<>>
    /\ held = NoneHeld
    /\ calls = 0
    /\ ret = NoRet

Init ==
    /\ NewHandle
    /\ call = NoCall

(* ------------------------------------------------------------------ *)
(* start_recording                                                     *)
(* ------------------------------------------------------------------ *)

\* start_recording with the device resolved before the flag is tested: an
\* unusable device is reported even while a recording is in progress.
StartCheckLate(c, name) ==
    /\ pc[c] = "idle"
    /\ calls' = calls + 1
    /\ LET d == get_device_by_name(Host, name)
           cfg == DefaultInputConfig(d.dev)
       IN  IF ~d.ok
           THEN /\ ret' = Err("start", d.err)
                /\ UNCHANGED <<pc, local>>
           ELSE IF ~cfg.ok
           THEN /\ ret' = Err("start", "DefaultStreamConfigError")
                /\ UNCHANGED <<pc, local>>
           ELSE IF is_recording
           THEN /\ ret' = Err("start", "RecordingInProgress")
                /\ UNCHANGED <<pc, local>>
           ELSE /\ Cardinality(Spawned) + Cardinality(Starting) < MaxWorkers
                /\ pc' = [pc EXCEPT ![c] = "start_clear"]
                /\ local' = [local EXCEPT ![c] = [NoLocal EXCEPT !.dev = d.dev]]
                /\ ret' = NoRet
    /\ UNCHANGED <<shared, wpc, wdev, cpc, cbuf, accepted, measured, call, appended, log, held>>

\* start_recording with clear_samples called right after the flag check,
\* before the device is resolved.
StartCheckClearsFirst(c, name) ==
    /\ pc[c] = "idle"
    /\ calls' = calls + 1
    /\ LET d == get_device_by_name(Host, name)
           cfg == DefaultInputConfig(d.dev)
       IN  IF is_recording
           THEN /\ ret' = Err("start", "RecordingInProgress")
                /\ UNCHANGED <<pc, local, samples, log>>
           ELSE /\ samples' = <<>>
                /\ log' = <<>>
                /\ IF ~d.ok
                   THEN /\ ret' = Err("start", d.err)
                        /\ UNCHANGED <<pc, local>>
                   ELSE IF ~cfg.ok
                   THEN /\ ret' = Err("start", "DefaultStreamConfigError")
                        /\ UNCHANGED <<pc, local>>
                   ELSE /\ Cardinality(Spawned) + Cardinality(Starting) < MaxWorkers
                        /\ pc' = [pc EXCEPT ![c] = "start_clear"]
                        /\ local' = [local EXCEPT ![c] = [NoLocal EXCEPT !.dev = d.dev]]
                        /\ ret' = NoRet
    /\ UNCHANGED <<is_recording, current_level, peak_level, wpc, wdev, cpc, cbuf, accepted,
                   measured, call, appended, held>>

\* Lines 158-163: the flag check, get_device_by_name and
\* default_input_config; each failure returns to the caller.
StartCheck(c, name) ==
    /\ pc[c] = "idle"
    /\ calls' = calls + 1
    /\ LET d == get_device_by_name(Host, name)
           cfg == DefaultInputConfig(d.dev)
       IN  IF is_recording
           THEN /\ ret' = Err("start", "RecordingInProgress")
                /\ UNCHANGED <<pc, local>>
           ELSE IF ~d.ok
           THEN /\ ret' = Err("start", d.err)
                /\ UNCHANGED <<pc, local>>
           ELSE IF ~cfg.ok
           THEN /\ ret' = Err("start", "DefaultStreamConfigError")
                /\ UNCHANGED <<pc, local>>
           ELSE /\ Cardinality(Spawned) + Cardinality(Starting) < MaxWorkers
                /\ pc' = [pc EXCEPT ![c] = "start_clear"]
                /\ local' = [local EXCEPT ![c] = [NoLocal EXCEPT !.dev = d.dev]]
                /\ ret' = NoRet
    /\ UNCHANGED <<shared, wpc, wdev, cpc, cbuf, accepted, measured, call, appended, log, held>>

\* start_recording without the call of clear_samples.
StartClearSkipped(c) ==
    /\ pc[c] = "start_clear"
    /\ pc' = [pc EXCEPT ![c] = "start_set"]
    /\ ret' = NoRet
    /\ UNCHANGED <<shared, local, wpc, wdev, cpc, cbuf, accepted, measured, calls, call, appended, log, held>>

\* Line 173: handle.clear_samples().
StartClear(c) ==
    /\ pc[c] = "start_clear"
    /\ samples' = <<>>
    /\ log' = <<>>
    /\ pc' = [pc EXCEPT ![c] = "start_set"]
    /\ ret' = NoRet
    /\ UNCHANGED <<is_recording, current_level, peak_level, local, wpc, wdev,
                   cpc, cbuf, accepted, measured, calls, call, appended, held>>

\* Lines 174-182 and 292: handle.set_recording(true), thread::spawn, Ok(()).
StartSet(c) ==
    /\ pc[c] = "start_set"
    /\ LET w == Cardinality(Spawned) + 1
       IN  /\ is_recording' = TRUE
           /\ wpc' = [wpc EXCEPT ![w] = "build"]
           /\ wdev' = [wdev EXCEPT ![w] = local[c].dev]
    /\ pc' = [pc EXCEPT ![c] = "idle"]
    /\ local' = [local EXCEPT ![c] = NoLocal]
    /\ ret' = Ok("start")
    /\ UNCHANGED <<samples, current_level, peak_level, cpc, cbuf, accepted, measured,
                   calls, call, appended, log, held>>

(* ------------------------------------------------------------------ *)
(* stop_recording                                                      *)
(* ------------------------------------------------------------------ *)

\* stop_recording without the check of the flag.
StopCheckUnguarded(c) ==
    /\ pc[c] = "idle"
    /\ calls' = calls + 1
    /\ pc' = [pc EXCEPT ![c] = "stop_flip"]
    /\ ret' = NoRet
    /\ UNCHANGED <<shared, local, wpc, wdev, cpc, cbuf, accepted, measured, call, appended, log, held>>

\* Lines 297-299: the check of the flag.
StopCheck(c) ==
    /\ pc[c] = "idle"
    /\ calls' = calls + 1
    /\ IF is_recording
       THEN /\ pc' = [pc EXCEPT ![c] = "stop_flip"]
            /\ ret' = NoRet
       ELSE /\ ret' = Err("stop", "NoRecordingInProgress")
            /\ UNCHANGED pc
    /\ UNCHANGED <<shared, local, wpc, wdev, cpc, cbuf, accepted, measured, call, appended, log, held>>

\* Line 301: handle.set_recording(false).
StopFlip(c) ==
    /\ pc[c] = "stop_flip"
    /\ is_recording' = FALSE
    /\ pc' = [pc EXCEPT ![c] = "stop_get"]
    /\ local' = [local EXCEPT ![c].snap = samples]
    /\ ret' = NoRet
    /\ UNCHANGED <<samples, current_level, peak_level, wpc, wdev, cpc, cbuf,
                   accepted, measured, calls, call, appended, log, held>>

\* Lines 304-309: the grace period, handle.get_samples(), Ok(samples).
StopGet(c) ==
    /\ pc[c] = "stop_get"
    /\ ret' = [Ok("stop") EXCEPT !.v = samples]
    /\ pc' = [pc EXCEPT ![c] = "idle"]
    /\ local' = [local EXCEPT ![c] = NoLocal]
    /\ UNCHANGED <<shared, wpc, wdev, cpc, cbuf, accepted, measured, calls, call, appended, log, held>>

(* ------------------------------------------------------------------ *)
(* get_level                                                           *)
(* ------------------------------------------------------------------ *)

\* Line 135: the read of current_level under its lock.
GetLevelRead(c) ==
    /\ pc[c] = "idle"
    /\ calls' = calls + 1
    /\ pc' = [pc EXCEPT ![c] = "level_peak"]
    /\ local' = [local EXCEPT ![c] = [NoLocal EXCEPT !.level = current_level]]
    /\ ret' = NoRet
    /\ UNCHANGED <<shared, wpc, wdev, cpc, cbuf, accepted, measured, call, appended, log, held>>

\* Lines 136-137: the read of peak_level under its lock, and the pair.
GetLevelPeak(c) ==
    /\ pc[c] = "level_peak"
    /\ ret' = [Ok("get_level") EXCEPT !.level = local[c].level, !.peak = peak_level]
    /\ pc' = [pc EXCEPT ![c] = "idle"]
    /\ local' = [local EXCEPT ![c] = NoLocal]
    /\ UNCHANGED <<shared, wpc, wdev, cpc, cbuf, accepted, measured, calls, call, appended, log, held>>

(* ------------------------------------------------------------------ *)
(* update_level called on the handle directly                          *)
(* ------------------------------------------------------------------ *)

\* Sample values of the blocks given to update_level, some outside [-1, 1].
LevelValues == {-250, 0, 30, One}

\* Blocks of at most MaxBlockLen samples.
LevelBlocks == UNION {[1..n -> LevelValues] : n \in 0..MaxBlockLen}

AllZero(block) == \A i \in 1..Len(block) : block[i] = 0

\* Lines 111-127: the early return on an empty block, else the RMS level
\* and its store into current_level.
UpdateLevel(c, block) ==
    /\ pc[c] = "idle"
    /\ calls' = calls + 1
    /\ current_level' = NewLevel(current_level, block)
    /\ pc' = [pc EXCEPT ![c] = IF block = <<>> THEN "idle" ELSE "update_peak"]
    /\ local' = [local EXCEPT ![c] = [NoLocal EXCEPT !.snap = block]]
    /\ measured' = IF block = <<>> THEN measured ELSE measured + 1
    /\ ret' = NoRet
    /\ UNCHANGED <<is_recording, samples, peak_level, wpc, wdev, cpc, cbuf, accepted, call, appended, log, held>>

\* Lines 128-130: the store into peak_level.
UpdatePeak(c) ==
    /\ pc[c] = "update_peak"
    /\ peak_level' = NewPeak(peak_level, local[c].snap)
    /\ pc' = [pc EXCEPT ![c] = "idle"]
    /\ local' = [local EXCEPT ![c] = NoLocal]
    /\ ret' = NoRet
    /\ UNCHANGED <<is_recording, samples, current_level, wpc, wdev, cpc, cbuf, accepted,
                   measured, calls, call, appended, log, held>>

(* ------------------------------------------------------------------ *)
(* Stream Worker (the thread start_recording spawns)                   *)
(* ------------------------------------------------------------------ *)

SupportedFormats == {"F32", "I16", "U16"}

\* Lines 195-256 and 285-288: build_input_stream by sample format.  Any other
\* format returns from the thread; a build error resets the flag.
WorkerBuild(w) ==
    /\ wpc[w] = "build"
    /\ IF DefaultInputConfig(wdev[w]).format \notin SupportedFormats
       THEN /\ wpc' = [wpc EXCEPT ![w] = "done"]
            /\ wdev' = [wdev EXCEPT ![w] = ""]
            /\ UNCHANGED is_recording
       ELSE \/ /\ wpc' = [wpc EXCEPT ![w] = "play"]
               /\ UNCHANGED <<is_recording, wdev>>
            \/ /\ wpc' = [wpc EXCEPT ![w] = "done"]
               /\ wdev' = [wdev EXCEPT ![w] = ""]
               /\ is_recording' = FALSE
    /\ ret' = NoRet
    /\ UNCHANGED <<samples, current_level, peak_level, pc, local, cpc, cbuf,
                   accepted, measured, calls, call, appended, log, held>>

\* stream.play() with set_recording(false) after the `if let Err`, not in it:
\* the flag is reset on success too.
WorkerPlayResets(w) ==
    /\ wpc[w] = "play"
    /\ \/ /\ wpc' = [wpc EXCEPT ![w] = "loop"]
          /\ UNCHANGED wdev
       \/ /\ wpc' = [wpc EXCEPT ![w] = "done"]
          /\ wdev' = [wdev EXCEPT ![w] = ""]
    /\ is_recording' = FALSE
    /\ ret' = NoRet
    /\ UNCHANGED <<samples, current_level, peak_level, pc, local, cpc, cbuf,
                   accepted, measured, calls, call, appended, log, held>>

\* Lines 259-264: stream.play(); an error resets the flag and drops the stream.
WorkerPlay(w) ==
    /\ wpc[w] = "play"
    /\ \/ /\ wpc' = [wpc EXCEPT ![w] = "loop"]
          /\ UNCHANGED <<is_recording, wdev>>
       \/ /\ wpc' = [wpc EXCEPT ![w] = "done"]
          /\ wdev' = [wdev EXCEPT ![w] = ""]
          /\ is_recording' = FALSE
    /\ ret' = NoRet
    /\ UNCHANGED <<samples, current_level, peak_level, pc, local, cpc, cbuf,
                   accepted, measured, calls, call, appended, log, held>>

\* Lines 269-273 and 280-284: one test of `while handle_clone.is_recording()`
\* and the sleep; tick: 100 ms have elapsed and a level callback was given.
\* On false the loop ends and the stream is dropped.
WorkerPoll(w) ==
    /\ wpc[w] = "loop"
    /\ IF is_recording
       THEN /\ \E tick \in BOOLEAN :
                   wpc' = [wpc EXCEPT ![w] = IF tick THEN "emit" ELSE "loop"]
            /\ UNCHANGED wdev
       ELSE /\ wpc' = [wpc EXCEPT ![w] = "done"]
            /\ wdev' = [wdev EXCEPT ![w] = ""]
    /\ ret' = NoRet
    /\ UNCHANGED <<shared, pc, local, cpc, cbuf, accepted, measured, calls, call, appended, log, held>>

\* Lines 274-278: get_level() and cb(level); the callback is the UI's and
\* changes nothing of the session.
WorkerEmit(w) ==
    /\ wpc[w] = "emit"
    /\ wpc' = [wpc EXCEPT ![w] = "loop"]
    /\ ret' = NoRet
    /\ UNCHANGED <<shared, pc, local, wdev, cpc, cbuf, accepted, measured, calls, call, appended, log, held>>

(* ------------------------------------------------------------------ *)
(* The data callback of a worker's stream                              *)
(* ------------------------------------------------------------------ *)

\* Frames per block a device delivers.
BlockFrames(dev) == IF dev = "usb" THEN {1, 6} ELSE {2}

\* The amplitude the stream of worker w captures: w tenths of full scale,
\* so a sample's value tells which stream captured it.
Amp(w) == w * (One \div 10)

Origin(sample) == sample \div (One \div 10)

\* The raw value the device delivers for that amplitude in its format.
RawAmp(format, w) ==
    CASE format = "I16" -> (Amp(w) * I16Max + One - 1) \div One
      [] format = "U16" -> ((One + Amp(w)) * U16Max + 2 * One - 1) \div (2 * One)
      [] OTHER          -> Amp(w)

RawBlock(w, frames) ==
    LET cfg == DefaultInputConfig(wdev[w])
    IN  [i \in 1..(frames * cfg.channels) |-> RawAmp(cfg.format, w)]

\* Line 200 (217-219, 237-241): the conversion to float and
\* process_audio_data.
Processed(w, frames) ==
    LET cfg == DefaultInputConfig(wdev[w])
    IN  process_audio_data(ToFloat(cfg.format, RawBlock(w, frames)), cfg.rate, cfg.channels)

\* The data callback without `if handle_clone.is_recording()`.
CallbackCheckUnguarded(w, frames) ==
    /\ Streaming(w)
    /\ cpc[w] = "idle"
    /\ frames \in BlockFrames(wdev[w])
    /\ accepted < MaxBlocks
    /\ cbuf' = [cbuf EXCEPT ![w] = Processed(w, frames)]
    /\ cpc' = [cpc EXCEPT ![w] = "level"]
    /\ accepted' = accepted + 1
    /\ ret' = NoRet
    /\ UNCHANGED <<shared, pc, local, wpc, wdev, measured, calls, call, appended, log, held>>

\* The data callback with update_level left out: an accepted block goes
\* straight to the append.
CallbackCheckNoLevel(w, frames) ==
    /\ Streaming(w)
    /\ cpc[w] = "idle"
    /\ frames \in BlockFrames(wdev[w])
    /\ IF is_recording
       THEN /\ accepted < MaxBlocks
            /\ cbuf' = [cbuf EXCEPT ![w] = Processed(w, frames)]
            /\ cpc' = [cpc EXCEPT ![w] = "append"]
            /\ accepted' = accepted + 1
            /\ ret' = NoRet
       ELSE /\ UNCHANGED <<cbuf, cpc, accepted>>
            /\ ret' = Ok("data_callback")
    /\ UNCHANGED <<shared, pc, local, wpc, wdev, measured, calls, call, appended, log, held>>

\* Line 199 (216, 236): the test of the flag; a block read while the flag is
\* false is dropped and the callback returns.
CallbackCheck(w, frames) ==
    /\ Streaming(w)
    /\ cpc[w] = "idle"
    /\ frames \in BlockFrames(wdev[w])
    /\ IF is_recording
       THEN /\ accepted < MaxBlocks
            /\ cbuf' = [cbuf EXCEPT ![w] = Processed(w, frames)]
            /\ cpc' = [cpc EXCEPT ![w] = "level"]
            /\ accepted' = accepted + 1
            /\ ret' = NoRet
       ELSE /\ UNCHANGED <<cbuf, cpc, accepted>>
            /\ ret' = Ok("data_callback")
    /\ UNCHANGED <<shared, pc, local, wpc, wdev, measured, calls, call, appended, log, held>>

\* Lines 111-127: update_level up to the store into current_level.
CallbackLevel(w) ==
    /\ cpc[w] = "level"
    /\ current_level' = NewLevel(current_level, cbuf[w])
    /\ cpc' = [cpc EXCEPT ![w] = IF cbuf[w] = <<>> THEN "append" ELSE "peak"]
    /\ measured' = IF cbuf[w] = <<>> THEN measured ELSE measured + 1
    /\ ret' = NoRet
    /\ UNCHANGED <<is_recording, samples, peak_level, pc, local, wpc, wdev, cbuf,
                   accepted, calls, call, appended, log, held>>

\* Lines 128-130: the store into peak_level.
CallbackPeak(w) ==
    /\ cpc[w] = "peak"
    /\ peak_level' = NewPeak(peak_level, cbuf[w])
    /\ cpc' = [cpc EXCEPT ![w] = "append"]
    /\ ret' = NoRet
    /\ UNCHANGED <<is_recording, samples, current_level, pc, local, wpc, wdev,
                   cbuf, accepted, measured, calls, call, appended, log, held>>

\* Lines 202-204: samples.extend(processed) under the lock, and the return
\* of the callback.
CallbackAppend(w) ==
    /\ cpc[w] = "append"
    /\ samples' = samples \o cbuf[w]
    /\ appended' = IF cbuf[w] = <<>> THEN appended ELSE appended + 1
    /\ log' = IF cbuf[w] = <<>> THEN log ELSE Append(log, cbuf[w])
    /\ cbuf' = [cbuf EXCEPT ![w] = <<>>]
    /\ cpc' = [cpc EXCEPT ![w] = "idle"]
    /\ ret' = Ok("data_callback")
    /\ UNCHANGED <<is_recording, current_level, peak_level, pc, local, wpc, wdev,
                   accepted, measured, calls, call, held>>

\* The error callback with a recovery that ends the recording.
StreamErrorStops(w) ==
    /\ Streaming(w)
    /\ is_recording' = FALSE
    /\ ret' = Ok("err_fn")
    /\ UNCHANGED <<samples, current_level, peak_level, pc, local, wpc, wdev, cpc, cbuf,
                   accepted, measured, calls, call, appended, log, held>>

\* Lines 183-185: err_fn, which the platform calls with an error of the
\* running stream; it logs the error.
StreamError(w) ==
    /\ Streaming(w)
    /\ ret' = Ok("err_fn")
    /\ UNCHANGED <<shared, pc, local, wpc, wdev, cpc, cbuf, accepted, measured, calls,
                   call, appended, log, held>>

(* ------------------------------------------------------------------ *)
(* Specification                                                       *)
(* ------------------------------------------------------------------ *)

\* A caller thread goes on with the call it is in.
Continue(c) ==
    \/ StartClear(c)
    \/ StartSet(c)
    \/ StopFlip(c)
    \/ StopGet(c)
    \/ GetLevelPeak(c)

\* The worker threads and the platform's callback threads.
Background ==
    \/ \E w \in Workers : WorkerBuild(w)
    \/ \E w \in Workers : WorkerPlay(w)
    \/ \E w \in Workers : WorkerPoll(w)
    \/ \E w \in Workers : WorkerEmit(w)
    \/ \E w \in Workers, frames \in {1, 2, 6} : CallbackCheck(w, frames)
    \/ \E w \in Workers : CallbackLevel(w)
    \/ \E w \in Workers : CallbackPeak(w)
    \/ \E w \in Workers : CallbackAppend(w)
    \/ \E w \in Workers : StreamError(w)

Next ==
    \/ \E c \in Callers, name \in DeviceNames : calls < MaxCalls /\ StartCheck(c, name)
    \/ \E c \in Callers : calls < MaxCalls /\ StopCheck(c)
    \/ \E c \in Callers : calls < MaxCalls /\ GetLevelRead(c)
    \/ \E c \in Callers : Continue(c)
    \/ Background

\* Any threads may call into the handle concurrently.
Spec == Init /\ [][Next]_vars

NextSeq ==
    \/ \E name \in DeviceNames : calls < MaxSeqCalls /\ StartCheck("c1", name)
    \/ calls < MaxSeqCalls /\ StopCheck("c1")
    \/ calls < MaxSeqCalls /\ GetLevelRead("c1")
    \/ Continue("c1")
    \/ Background

\* One thread makes all the calls, each after the previous one returned.
SpecSeq == Init /\ [][NextSeq]_vars

\* The operating system runs every thread that can take a step: a worker
\* thread goes on through build, play and each turn of its loop, and a caller
\* goes on with the call it is in.  The platform owes no block, and nobody
\* owes a call.
Fairness ==
    /\ \A w \in Workers : WF_vars(WorkerBuild(w))
    /\ \A w \in Workers : WF_vars(WorkerPlay(w))
    /\ \A w \in Workers : WF_vars(WorkerPoll(w))
    /\ \A w \in Workers : WF_vars(WorkerEmit(w))
    /\ \A c \in Callers : WF_vars(Continue(c))

\* SpecSeq under fair scheduling of the threads.
SpecSeqFair == SpecSeq /\ Fairness

(* ------------------------------------------------------------------ *)
(* Calls of the functions that take no handle                          *)
(* ------------------------------------------------------------------ *)

\* Sample values in [-1, 1].
SampleValues == {-One, -33, 0, 50, 99, One}

\* n samples running through [-1, 1] in steps of 0.37.
Ramp(n) == [i \in 1..n |-> ((i * 37) % (2 * One + 1)) - One]

\* n 16-bit integer samples, the extremes among them.
Ramp16(n) == [i \in 1..n |-> ((i * 12007) % (2 * I16Max + 2)) - I16Max - 1]

Vectors ==
    UNION {[1..n -> SampleValues] : n \in 0..MaxLen} \cup {Ramp(n) : n \in 0..MaxRun}

Rates == {8000, WHISPER_SAMPLE_RATE, 48000}

\* WAV files as hound reads them: interleaved frames of 1 or 2 channels.
WavFiles ==
    {[channels |-> c, sample_rate |-> r, bits_per_sample |-> 16, sample_format |-> f,
      data |-> IF f = "Int" THEN Ramp16(n * c) ELSE Ramp(n * c)] :
        c \in 1..2, r \in Rates, f \in {"Int", "Float"}, n \in 0..MaxFrames}

SampleCounts == (0..MaxCount) \cup {7999, 8000, 8001, 15999, 16000, 16001}

\* Signed and unsigned 16-bit samples, the extremes among them.
I16Values == {-I16Max - 1, -I16Max, -(I16Max \div 2), -1, 0, 1, I16Max \div 2, I16Max}

U16Values == {0, 1, I16Max, I16Max + 1, U16Max - 1, U16Max}

\* Platforms: with or without a default input device, which need not be
\* among the devices enumerated, and with an enumeration that may fail.
Hosts ==
    [default : {NoDevice, "usb", "builtin"}, devices : SUBSET {"usb", "odd"},
     enumerable : BOOLEAN]

\* The calls made, before they return.
FnCalls ==
    {[op |-> "resample", state |-> "called", s |-> v, from_rate |-> f, to_rate |-> t,
      out |-> <<>>] : v \in Vectors, f \in Rates, t \in Rates}
    \cup {[op |-> "save_wav", state |-> "called", s |-> v, out |-> <<>>] : v \in Vectors}
    \cup {[op |-> "load_wav", state |-> "called", file |-> f, out |-> <<>>] : f \in WavFiles}
    \cup {[op |-> "calculate_duration_ms", state |-> "called", sample_count |-> n,
           out |-> 0] : n \in SampleCounts}
    \cup {[op |-> "get_device_by_name", state |-> "called", host |-> h, name |-> nm,
           out |-> <<>>] : h \in Hosts, nm \in DeviceNames}
    \cup {[op |-> "to_float", state |-> "called", format |-> "I16", raw |-> v,
           out |-> 0] : v \in I16Values}
    \cup {[op |-> "to_float", state |-> "called", format |-> "U16", raw |-> u,
           out |-> 0] : u \in U16Values}

InitFn ==
    /\ NewHandle
    /\ call \in FnCalls

Resample ==
    /\ call.op = "resample" /\ call.state = "called"
    /\ call' = [call EXCEPT !.state = "returned",
                            !.out = resample(call.s, call.from_rate, call.to_rate)]
    /\ UNCHANGED handle

\* save_wav returns; its caller goes on to load the file it wrote.
SaveWav ==
    /\ call.op = "save_wav" /\ call.state = "called"
    /\ call' = [op |-> "load_wav", state |-> "called", file |-> save_wav(call.s),
                saved |-> call.s, out |-> <<>>]
    /\ UNCHANGED handle

LoadWav ==
    /\ call.op = "load_wav" /\ call.state = "called"
    /\ call' = [call EXCEPT !.state = "returned", !.out = load_wav(call.file)]
    /\ UNCHANGED handle

CalculateDuration ==
    /\ call.op = "calculate_duration_ms" /\ call.state = "called"
    /\ call' = [call EXCEPT !.state = "returned",
                            !.out = calculate_duration_ms(call.sample_count)]
    /\ UNCHANGED handle

GetDevice ==
    /\ call.op = "get_device_by_name" /\ call.state = "called"
    /\ call' = [call EXCEPT !.state = "returned",
                            !.out = get_device_by_name(call.host, call.name)]
    /\ UNCHANGED handle

\* Lines 218 and 239: the conversion of one integer sample in the I16 and
\* the U16 data callback.
Convert ==
    /\ call.op = "to_float" /\ call.state = "called"
    /\ call' = [call EXCEPT !.state = "returned",
                            !.out = IF call.format = "I16" THEN I16Float(call.raw)
                                                           ELSE U16Float(call.raw)]
    /\ UNCHANGED handle

NextFn ==
    \/ Resample
    \/ SaveWav
    \/ LoadWav
    \/ CalculateDuration
    \/ GetDevice
    \/ Convert

\* One call of a function that takes no handle, with any argument.
SpecFn == InitFn /\ [][NextFn]_vars

NextLevel ==
    \/ \E c \in Callers, block \in LevelBlocks :
          calls < MaxLevelCalls /\ UpdateLevel(c, block)
    \/ \E c \in Callers : UpdatePeak(c)
    \/ \E c \in Callers : calls < MaxLevelCalls /\ GetLevelRead(c)
    \/ \E c \in Callers : GetLevelPeak(c)

\* Threads call update_level, with any block, and get_level on a handle.
SpecLevel == Init /\ [][NextLevel]_vars

(* ------------------------------------------------------------------ *)
(* The handle's methods at the grain of lock and unlock                *)
(* ------------------------------------------------------------------ *)

\* The blocks given to append_samples and update_level: the empty one, and
\* for each thread number k one of amplitude k tenths.
LockBlocks == {<<>>} \cup {[i \in 1..MaxBlockLen |-> Amp(k)] : k \in 1..2}

\* Where a thread waits for a mutex, and the mutex it waits for.
Wanted(label) ==
    CASE label \in {"clear_wait", "get_wait", "append_wait"} -> "samples"
      [] label \in {"ulevel_wait", "glevel_wait"}            -> "current_level"
      [] label \in {"upeak_wait", "gpeak_wait"}              -> "peak_level"
      [] OTHER                                               -> "none"

\* Where the thread is once it has the mutex.
Entered(label) ==
    CASE label = "clear_wait"  -> "clear_in"
      [] label = "get_wait"    -> "get_in"
      [] label = "append_wait" -> "append_in"
      [] label = "ulevel_wait" -> "ulevel_in"
      [] label = "upeak_wait"  -> "upeak_in"
      [] label = "glevel_wait" -> "glevel_in"
      [] label = "gpeak_wait"  -> "gpeak_in"
      [] OTHER                 -> label

Unlock(c, m) == [held EXCEPT ![c] = @ \ {m}]

\* Mutex::lock(): blocks while any thread, the caller included, holds the
\* mutex.  The history notes the block of an append when it takes the lock.
Lock(c) ==
    /\ Wanted(pc[c]) \in Mutexes
    /\ \A d \in Callers : Wanted(pc[c]) \notin held[d]
    /\ held' = [held EXCEPT ![c] = @ \cup {Wanted(pc[c])}]
    /\ pc' = [pc EXCEPT ![c] = Entered(pc[c])]
    /\ log' = IF pc[c] = "append_wait" /\ local[c].snap # <<>>
              THEN Append(log, local[c].snap) ELSE log
    /\ ret' = NoRet
    /\ UNCHANGED <<shared, local, wpc, wdev, cpc, cbuf, accepted, measured, appended,
                   calls, call>>

\* Line 94: clear_samples is called and goes to lock `samples`.
ClearSamplesCall(c) ==
    /\ pc[c] = "idle"
    /\ calls' = calls + 1
    /\ pc' = [pc EXCEPT ![c] = "clear_wait"]
    /\ ret' = NoRet
    /\ UNCHANGED <<shared, local, wpc, wdev, cpc, cbuf, accepted, measured, appended,
                   log, held, call>>

\* Lines 95-96: samples.clear(), and the guard is dropped.
ClearSamples(c) ==
    /\ pc[c] = "clear_in"
    /\ samples' = <<>>
    /\ log' = <<>>
    /\ held' = Unlock(c, "samples")
    /\ pc' = [pc EXCEPT ![c] = "idle"]
    /\ ret' = Ok("clear_samples")
    /\ UNCHANGED <<is_recording, current_level, peak_level, local, wpc, wdev, cpc, cbuf,
                   accepted, measured, appended, calls, call>>

\* get_samples reading the buffer without its lock.
GetSamplesCallNoLock(c) ==
    /\ pc[c] = "idle"
    /\ calls' = calls + 1
    /\ pc' = [pc EXCEPT ![c] = "get_in"]
    /\ ret' = NoRet
    /\ UNCHANGED <<shared, local, wpc, wdev, cpc, cbuf, accepted, measured, appended,
                   log, held, call>>

\* Line 99: get_samples is called and goes to lock `samples`.
GetSamplesCall(c) ==
    /\ pc[c] = "idle"
    /\ calls' = calls + 1
    /\ pc' = [pc EXCEPT ![c] = "get_wait"]
    /\ ret' = NoRet
    /\ UNCHANGED <<shared, local, wpc, wdev, cpc, cbuf, accepted, measured, appended,
                   log, held, call>>

\* Line 99: s.clone() under the lock, and the guard is dropped.
GetSamples(c) ==
    /\ pc[c] = "get_in"
    /\ ret' = [Ok("get_samples") EXCEPT !.v = samples]
    /\ held' = Unlock(c, "samples")
    /\ pc' = [pc EXCEPT ![c] = "idle"]
    /\ UNCHANGED <<shared, local, wpc, wdev, cpc, cbuf, accepted, measured, appended,
                   log, calls, call>>

\* Line 105 (202): append_samples is called with a block and goes to lock
\* `samples`.
AppendSamplesCall(c, block) ==
    /\ pc[c] = "idle"
    /\ calls' = calls + 1
    /\ pc' = [pc EXCEPT ![c] = "append_wait"]
    /\ local' = [local EXCEPT ![c] = [NoLocal EXCEPT !.snap = block]]
    /\ ret' = NoRet
    /\ UNCHANGED <<shared, wpc, wdev, cpc, cbuf, accepted, measured, appended, log, held,
                   call>>

\* Lines 106-107 (203-204): samples.extend(new_samples) pushes the block
\* sample by sample under the lock; after the last one the guard is dropped.
AppendSamplesExtend(c) ==
    /\ pc[c] = "append_in"
    /\ IF local[c].snap # <<>>
       THEN /\ samples' = Append(samples, Head(local[c].snap))
            /\ local' = [local EXCEPT ![c].snap = Tail(@)]
            /\ ret' = NoRet
            /\ UNCHANGED <<pc, held>>
       ELSE /\ held' = Unlock(c, "samples")
            /\ pc' = [pc EXCEPT ![c] = "idle"]
            /\ local' = [local EXCEPT ![c] = NoLocal]
            /\ ret' = Ok("append_samples")
            /\ UNCHANGED samples
    /\ UNCHANGED <<is_recording, current_level, peak_level, wpc, wdev, cpc, cbuf,
                   accepted, measured, appended, log, calls, call>>

\* Lines 111-123: update_level is called: the early return on an empty
\* block, else level and peak are computed and it goes to lock
\* `current_level`.
UpdateLevelCall(c, block) ==
    /\ pc[c] = "idle"
    /\ calls' = calls + 1
    /\ pc' = [pc EXCEPT ![c] = IF block = <<>> THEN "idle" ELSE "ulevel_wait"]
    /\ local' = [local EXCEPT ![c] = [NoLocal EXCEPT !.snap = block]]
    /\ ret' = IF block = <<>> THEN Ok("update_level") ELSE NoRet
    /\ UNCHANGED <<shared, wpc, wdev, cpc, cbuf, accepted, measured, appended, log, held,
                   call>>

\* update_level with the guard of `current_level` kept until the function
\* returns.
UpdateLevelStoreKeepsLock(c) ==
    /\ pc[c] = "ulevel_in"
    /\ current_level' = NewLevel(current_level, local[c].snap)
    /\ measured' = measured + 1
    /\ pc' = [pc EXCEPT ![c] = "upeak_wait"]
    /\ ret' = NoRet
    /\ UNCHANGED <<is_recording, samples, peak_level, local, wpc, wdev, cpc, cbuf,
                   accepted, appended, log, held, calls, call>>

\* Lines 125-127: the store into current_level, and the guard is dropped at
\* the end of the `if let`; then it goes to lock `peak_level`.
UpdateLevelStore(c) ==
    /\ pc[c] = "ulevel_in"
    /\ current_level' = NewLevel(current_level, local[c].snap)
    /\ measured' = measured + 1
    /\ held' = Unlock(c, "current_level")
    /\ pc' = [pc EXCEPT ![c] = "upeak_wait"]
    /\ ret' = NoRet
    /\ UNCHANGED <<is_recording, samples, peak_level, local, wpc, wdev, cpc, cbuf,
                   accepted, appended, log, calls, call>>

\* Lines 128-131: the store into peak_level, the guard is dropped and
\* update_level returns.
UpdatePeakStore(c) ==
    /\ pc[c] = "upeak_in"
    /\ peak_level' = NewPeak(peak_level, local[c].snap)
    /\ held' = Unlock(c, "peak_level")
    /\ pc' = [pc EXCEPT ![c] = "idle"]
    /\ local' = [local EXCEPT ![c] = NoLocal]
    /\ ret' = Ok("update_level")
    /\ UNCHANGED <<is_recording, samples, current_level, wpc, wdev, cpc, cbuf,
                   accepted, measured, appended, log, calls, call>>

\* Line 135: get_level is called and goes to lock `current_level`.
GetLevelCall(c) ==
    /\ pc[c] = "idle"
    /\ calls' = calls + 1
    /\ pc' = [pc EXCEPT ![c] = "glevel_wait"]
    /\ ret' = NoRet
    /\ UNCHANGED <<shared, local, wpc, wdev, cpc, cbuf, accepted, measured, appended,
                   log, held, call>>

\* Line 135: the read of current_level; the guard is a temporary dropped at
\* the end of the statement; then it goes to lock `peak_level`.
GetLevelLoad(c) ==
    /\ pc[c] = "glevel_in"
    /\ local' = [local EXCEPT ![c] = [NoLocal EXCEPT !.level = current_level]]
    /\ held' = Unlock(c, "current_level")
    /\ pc' = [pc EXCEPT ![c] = "gpeak_wait"]
    /\ ret' = NoRet
    /\ UNCHANGED <<shared, wpc, wdev, cpc, cbuf, accepted, measured, appended, log,
                   calls, call>>

\* Lines 136-137: the read of peak_level, the guard is dropped and get_level
\* returns the pair.
GetPeakLoad(c) ==
    /\ pc[c] = "gpeak_in"
    /\ ret' = [Ok("get_level") EXCEPT !.level = local[c].level, !.peak = peak_level]
    /\ held' = Unlock(c, "peak_level")
    /\ pc' = [pc EXCEPT ![c] = "idle"]
    /\ local' = [local EXCEPT ![c] = NoLocal]
    /\ UNCHANGED <<shared, wpc, wdev, cpc, cbuf, accepted, measured, appended, log,
                   calls, call>>

\* A thread goes on with the method it is in.
Proceed(c) ==
    \/ Lock(c)
    \/ ClearSamples(c)
    \/ GetSamples(c)
    \/ AppendSamplesExtend(c)
    \/ UpdateLevelStore(c)
    \/ UpdatePeakStore(c)
    \/ GetLevelLoad(c)
    \/ GetPeakLoad(c)

NextLock ==
    \/ \E c \in Callers : calls < MaxLockCalls /\ ClearSamplesCall(c)
    \/ \E c \in Callers : calls < MaxLockCalls /\ GetSamplesCall(c)
    \/ \E c \in Callers, block \in LockBlocks :
          calls < MaxLockCalls /\ AppendSamplesCall(c, block)
    \/ \E c \in Callers, block \in LockBlocks :
          calls < MaxLockCalls /\ UpdateLevelCall(c, block)
    \/ \E c \in Callers : calls < MaxLockCalls /\ GetLevelCall(c)
    \/ \E c \in Callers : Proceed(c)

\* Threads call the methods of one handle in any order: what start_recording
\* (clear_samples), stop_recording (get_samples), the data callbacks
\* (update_level, then the append) and the worker's loop (get_level) do
\* with the mutexes.
SpecLock == Init /\ [][NextLock]_vars

\* SpecLock under fair scheduling: a thread that can go on does.
SpecLockFair == SpecLock /\ \A c \in Callers : WF_vars(Proceed(c))

(* ------------------------------------------------------------------ *)
(* Properties                                                          *)
(* ------------------------------------------------------------------ *)

InProgress == Err("start", "RecordingInProgress")

NotRecording == Err("stop", "NoRecordingInProgress")

\* C1: at no moment does more than one Stream Worker own a built platform
\* stream, whatever the interleaving of the callers' start_recording calls.
C1_AtMostOneStreamOwner ==
    Cardinality({w \in Workers : OwnsStream(w)}) <= 1

\* C2: once stop_recording has set the flag false, and for as long as the
\* flag stays false while that call waits to read the buffer, the buffer is
\* modified by nothing but the clear of a next start_recording.
C2_BufferFrozenAfterStop ==
    [][(~is_recording /\ (\E c \in Callers : pc[c] = "stop_get"))
          => \/ samples' = samples
             \/ \E c \in Callers : pc[c] = "start_clear" /\ pc'[c] = "start_set"]_vars

\* C3: the vector stop_recording returns begins with everything the buffer
\* held when that call set the flag false, so that no block appended up to
\* the flag transition is lost.
C3_NoSampleLost ==
    [][\A c \in Callers :
          (pc[c] = "stop_get" /\ pc'[c] = "idle")
             => /\ Len(local[c].snap) <= Len(ret'.v)
                /\ \A i \in 1..Len(local[c].snap) : ret'.v[i] = local[c].snap[i]]_vars

\* C4: start_recording called while the flag is true returns
\* RecordingInProgress, whatever the device name, and changes nothing: not
\* the buffer, the flag or the levels, no worker, no callback, no caller.
C4_StartWhileActiveRejected ==
    [][\A c \in Callers, name \in DeviceNames :
          (is_recording /\ StartCheck(c, name))
             => /\ ret' = InProgress
                /\ UNCHANGED <<shared, pc, local, wpc, wdev, cpc, cbuf>>]_vars

\* A start was rejected while a recording with samples in its buffer goes on.
C4_Witness ==
    /\ ret = InProgress
    /\ is_recording
    /\ samples # <<>>

C6_StopWhileInactiveRejected ==
    [][/\ \A c \in Callers :
             (~is_recording /\ StopCheck(c))
                => /\ ret' = NotRecording
                   /\ UNCHANGED <<shared, pc>>
       /\ \A c \in Callers : StopFlip(c) => ~is_recording'
       /\ \A c \in Callers : StopGet(c) => (ret'.err = "" /\ UNCHANGED is_recording)
       /\ (~is_recording /\ is_recording') => \E c \in Callers : StartSet(c)]_vars

\* A stop was rejected although the stream of the only recording is still
\* live and no call is in progress: an earlier stop has set the flag false
\* and returned.
C6_Witness ==
    /\ ret = NotRecording
    /\ Spawned = {1}
    /\ Streaming(1)
    /\ \A c \in Callers : pc[c] = "idle"

C8_FailedAttemptResetsFlag ==
    [][\A w \in Workers :
          (wpc[w] \in {"build", "play"} /\ wpc'[w] = "done") => ~is_recording']_vars

\* C9: with one thread making the calls, the vector a stop_recording
\* returns holds only samples captured by the stream of the latest
\* recording, none of a stream of an earlier one.
C9_OnlyThisRecordingsSamples ==
    (ret.op = "stop" /\ ret.err = "")
       => \A i \in 1..Len(ret.v) : Origin(ret.v[i]) = Cardinality(Spawned)

\* C10: get_level returns a pair and no error, and the pair is (0, 0) as
\* long as update_level has measured no non-empty block.
C10_GetLevelTotal ==
    ret.op = "get_level"
       => /\ ret.err = ""
          /\ measured = 0 => (ret.level = 0 /\ ret.peak = 0)

\* get_level has returned during a recording whose stream has delivered
\* blocks, none of them measured yet.
C10_Witness ==
    /\ ret.op = "get_level"
    /\ is_recording
    /\ accepted > 0
    /\ measured = 0

\* C11: update_level on a non-empty block of zeros leaves the stored level
\* and the stored peak as they were.
C11_ZeroBlockKeepsLevel ==
    [][\A c \in Callers :
          /\ (pc[c] = "idle" /\ pc'[c] = "update_peak" /\ AllZero(local'[c].snap))
                => current_level' = current_level
          /\ (AllZero(local[c].snap) /\ UpdatePeak(c)) => peak_level' = peak_level]_vars

\* C11, amended: update_level on a non-empty block of zeros stores level 0
\* and peak 0; only the empty block leaves both as they were.
C11_ZeroBlockStoresZero ==
    [][\A c \in Callers :
          /\ (pc[c] = "idle" /\ pc'[c] = "update_peak" /\ AllZero(local'[c].snap))
                => current_level' = 0
          /\ UpdateLevel(c, <<>>) => UNCHANGED <<current_level, peak_level, pc>>
          /\ (AllZero(local[c].snap) /\ UpdatePeak(c)) => peak_level' = 0]_vars

\* update_level is half way through a block of zeros: the level it stored is
\* 0 while the peak of an earlier block is still there.
C11_Witness ==
    \E c \in Callers :
        /\ pc[c] = "update_peak"
        /\ AllZero(local[c].snap)
        /\ current_level = 0
        /\ peak_level > 0

\* C12: the stored level and the stored peak are in [0, 1] in every state,
\* and so is every pair get_level reads or returns, whatever the blocks.
C12_LevelsInUnitRange ==
    /\ current_level \in 0..One
    /\ peak_level \in 0..One
    /\ \A c \in Callers : local[c].level \in 0..One
    /\ ret.op = "get_level" => (ret.level \in 0..One /\ ret.peak \in 0..One)

\* get_level has returned the level 1 while update_level is half way
\* through a block with a sample outside [-1, 1].
C12_Witness ==
    /\ ret.op = "get_level"
    /\ ret.level = One
    /\ \E c \in Callers : pc[c] = "update_peak" /\ MaxAbs(local[c].snap) > One

Returned(op) == call.op = op /\ call.state = "returned"

\* C13: load_wav of the file save_wav wrote for N samples in [-1, 1] returns
\* N samples, each within 1/32767 of the sample saved.
C13_WavRoundTrip ==
    (Returned("load_wav") /\ "saved" \in DOMAIN call)
       => /\ Len(call.out.samples) = Len(call.saved)
          /\ \A i \in 1..Len(call.saved) :
                Abs(call.saved[i] * call.out.one - call.out.samples[i] * One)
                   <= (One * call.out.one) \div I16Max

\* C14: load_wav returns what process_audio_data returns on the decoded
\* interleaved samples, the stored rate and the channel count: for F frames,
\* floor(F * 16000 / R) samples when R is not 16000 and F samples otherwise.
C14_LoadWavIsNormalizer ==
    Returned("load_wav")
       => LET file == call.file
              F == Len(file.data) \div file.channels
          IN  /\ call.out.samples
                    = process_audio_data(file.data, file.sample_rate, file.channels)
              /\ Len(call.out.samples)
                    = IF file.sample_rate # WHISPER_SAMPLE_RATE
                      THEN (F * WHISPER_SAMPLE_RATE) \div file.sample_rate
                      ELSE F

\* C15: resample(s, r, r) returns s, the empty vector included.
C15_ResampleSameRate ==
    (Returned("resample") /\ call.from_rate = call.to_rate) => call.out = call.s

\* resample has returned a vector of five samples or more at 48 kHz to 48 kHz.
C15_Witness ==
    /\ Returned("resample")
    /\ call.from_rate = 48000 /\ call.to_rate = 48000
    /\ Len(call.s) >= 5
    /\ call.out = call.s

\* C16: resample(input, 48000, 16000) of N samples returns L samples with
\* N/4 < L < N.
C16_DownsampleLength ==
    (Returned("resample") /\ call.from_rate = 48000 /\ call.to_rate = 16000)
       => /\ 4 * Len(call.out) > Len(call.s)
          /\ Len(call.out) < Len(call.s)

\* C16, amended: resample(input, 48000, 16000) of N samples returns
\* L = floor(N / 3) samples, and N/4 < L < N when N >= 9.
C16_DownsampleLengthFromNine ==
    (Returned("resample") /\ call.from_rate = 48000 /\ call.to_rate = 16000)
       => /\ Len(call.out) = Len(call.s) \div 3
          /\ Len(call.s) >= 9
                => /\ 4 * Len(call.out) > Len(call.s)
                   /\ Len(call.out) < Len(call.s)

\* resample has returned 4 samples for 12 samples at 48 kHz to 16 kHz.
C16_Witness ==
    /\ Returned("resample")
    /\ call.from_rate = 48000 /\ call.to_rate = 16000
    /\ Len(call.s) = 12
    /\ Len(call.out) = 4

\* C17: calculate_duration_ms(n) is floor(n * 1000 / 16000), 1000 for 16000
\* and 500 for 8000, and not less than calculate_duration_ms(n - 1).
C17_DurationMs ==
    Returned("calculate_duration_ms")
       => LET n == call.sample_count
          IN  /\ call.out * 16000 <= n * 1000
              /\ n * 1000 < (call.out + 1) * 16000
              /\ n = 16000 => call.out = 1000
              /\ n = 8000 => call.out = 500
              /\ n > 0 => calculate_duration_ms(n - 1) <= call.out

\* calculate_duration_ms(16000) has returned 1000.
C17_Witness ==
    /\ Returned("calculate_duration_ms")
    /\ call.sample_count = 16000
    /\ call.out = 1000

NotFoundErrors == {"No default input device", "Device not found"}

\* C18: get_device_by_name("") and ("default") return the default input
\* device when there is one and fail with a not-found error when there is
\* none; any other name returns only an enumerated device of that name, and
\* every failure is a not-found error.
C18_DeviceResolution ==
    Returned("get_device_by_name")
       => LET h == call.host
              o == call.out
          IN  IF call.name \in {"", "default"}
              THEN IF h.default # NoDevice
                   THEN o.ok /\ o.dev = h.default
                   ELSE ~o.ok /\ o.err \in NotFoundErrors
              ELSE IF o.ok
                   THEN call.name \in h.devices /\ o.dev = call.name
                   ELSE o.err \in NotFoundErrors

\* C18, amended: as C18 for "" and "default"; any other name fails with the
\* platform's enumeration error when the devices cannot be enumerated, else
\* returns the enumerated device of that name, else fails with a not-found
\* error.
C18_DeviceResolutionOrEnumError ==
    Returned("get_device_by_name")
       => LET h == call.host
              o == call.out
          IN  IF call.name \in {"", "default"}
              THEN IF h.default # NoDevice
                   THEN o.ok /\ o.dev = h.default
                   ELSE ~o.ok /\ o.err = "No default input device"
              ELSE IF ~h.enumerable
              THEN ~o.ok /\ o.err = "DevicesError"
              ELSE IF call.name \in h.devices
                   THEN o.ok /\ o.dev = call.name
                   ELSE ~o.ok /\ o.err = "Device not found"

\* get_device_by_name("default") has returned the default device of a
\* platform that does not enumerate it and cannot enumerate at all.
C18_Witness ==
    /\ Returned("get_device_by_name")
    /\ call.name = "default"
    /\ ~call.host.enumerable
    /\ call.out.ok
    /\ call.out.dev = "builtin"

\* C19: a data callback that reads the flag as false returns at once, with
\* no error: it appends nothing, stores no level and no peak and keeps no block.
C19_BlockDroppedWhileInactive ==
    [][\A w \in Workers, frames \in {1, 2, 6} :
          (~is_recording /\ CallbackCheck(w, frames))
             => /\ UNCHANGED <<shared, cpc, cbuf, accepted, measured>>
                /\ ret' = Ok("data_callback")]_vars

\* A data callback of a live stream has returned while the flag is false and
\* no block has ever been accepted: it dropped its block.
C19_Witness ==
    /\ ret = Ok("data_callback")
    /\ ~is_recording
    /\ accepted = 0
    /\ samples = <<>>
    /\ \E w \in Workers : Streaming(w)

\* C20: the level callback is invoked only by a worker whose stream has been
\* built and started, and only at a moment when the flag is true.
C20_LevelCallbackWhileActive ==
    [][\A w \in Workers : WorkerEmit(w) => (Streaming(w) /\ is_recording)]_vars

\* C21: under fair scheduling, a Stream Worker in its polling loop when a
\* stop_recording has set the flag false eventually ends its loop, drops its
\* stream and exits, also when a new start_recording follows that stop.
C21_WorkerExitsAfterStop ==
    \A w \in Workers :
        (Streaming(w) /\ pc["c1"] = "stop_get") ~> (wpc[w] = "done")

\* C22: for every block the data callback accepts, the level is stored
\* before the block is appended: at every moment at least as many non-empty
\* blocks have had their level stored as have been appended to the buffer.
C22_LevelBeforeAppend ==
    measured >= appended

\* A non-empty block has had its level stored and has been appended, and the
\* callback has returned.
C22_Witness ==
    /\ appended >= 1
    /\ measured = appended
    /\ \A w \in Workers : cpc[w] = "idle"
    /\ ret = Ok("data_callback")

\* C23: an error the platform reports through the stream's error callback
\* changes nothing of the session: flag, buffer, level and peak are as they
\* were, every worker is where it was and keeps its stream, and every data
\* callback goes on with the block it has.
C23_StreamErrorChangesNothing ==
    [][ret'.op = "err_fn"
          => UNCHANGED <<shared, pc, local, wpc, wdev, cpc, cbuf, accepted, measured,
                         appended, log>>]_vars

\* An error was reported while the recording is active and the stream's data
\* callback is about to append a block.
C23_Witness ==
    \E w \in Workers :
        /\ ret = Ok("err_fn")
        /\ is_recording
        /\ Streaming(w)
        /\ cpc[w] = "append"
        /\ cbuf[w] # <<>>

\* C24: integer input is scaled into the unit range: for every signed
\* 16-bit value the float v / 32767 of the I16 callback, and for every
\* unsigned 16-bit value the float (u / 65535) * 2 - 1 of the U16 callback,
\* lies in [-1.0, 1.0].
C24_IntegerInputInUnitRange ==
    (call.op = "to_float" /\ call.state = "returned")
        => (-Fine <= call.out /\ call.out <= Fine)

\* C25: a worker that fails to build or start its stream sets the flag
\* false only for its own recording attempt: it never sets the flag false
\* while a recording started after it (by a later start_recording, after a
\* stop_recording in between) is active.
C25_FailureEndsOwnAttemptOnly ==
    [][\A w \in Workers :
          (/\ wpc[w] \in {"build", "play"}
           /\ wpc'[w] = "done"
           /\ is_recording
           /\ ~is_recording')
              => w = Cardinality(Spawned)]_vars

\* C26: a start_recording that returns an error (RecordingInProgress, or
\* an error of the device lookup or of default_input_config) leaves the
\* session as it was: flag, buffer, level and peak are unchanged and no
\* worker thread is spawned.
C26_FailedStartChangesNothing ==
    [][(ret'.op = "start" /\ ret'.err # "")
          => UNCHANGED <<shared, pc, local, wpc, wdev, cpc, cbuf, accepted, measured,
                         appended, log>>]_vars

\* A start_recording returned an error of the device while the session was
\* inactive and held the samples of a recording that was stopped.
C26_Witness ==
    /\ ret.op = "start"
    /\ ret.err \in {"Device not found", "DefaultStreamConfigError"}
    /\ ~is_recording
    /\ samples # <<>>
    /\ \A c \in Callers : pc[c] = "idle"

\* C27: for each successful start_recording at most one stop_recording
\* returns success: when a stop_recording returns the samples, no other
\* thread's stop_recording has passed the check of the flag for the same
\* recording (that call returns the samples too).
C27_OneStopSucceeds ==
    [][\A c \in Callers :
          (pc[c] = "stop_get" /\ pc'[c] = "idle" /\ ret'.op = "stop" /\ ret'.err = "")
              => \A d \in Callers \ {c} : pc[d] \notin {"stop_flip", "stop_get"}]_vars

\* C29: the pair get_level returns is consistent: level and peak were both
\* computed from one block (or both are the initial 0.0), never the level
\* of one block with the peak of another.
C29_LevelPairFromOneBlock ==
    ret.op = "get_level"
        => \/ ret.level = 0 /\ ret.peak = 0
           \/ \E block \in LevelBlocks \ {<<>>} :
                 /\ ret.level = NewLevel(0, block)
                 /\ ret.peak = NewPeak(0, block)

\* The samples of the blocks of the history, one block after the other.
RECURSIVE Flatten(_)
Flatten(blocks) ==
    IF blocks = <<>> THEN <<>> ELSE Head(blocks) \o Flatten(Tail(blocks))

\* C28: appends are atomic with respect to reads: every vector get_samples
\* returns is the concatenation of whole blocks, in the order in which their
\* appends took the lock of the buffer; it never holds part of a block.
C28_SnapshotOfWholeBlocks ==
    ret.op = "get_samples" => ret.v = Flatten(log)

\* get_samples returned two whole blocks of different threads.
C28_Witness ==
    /\ ret.op = "get_samples"
    /\ Len(log) = 2
    /\ log[1] # log[2]
    /\ ret.v = log[1] \o log[2]

\* C30: the session is deadlock-free: no thread ever holds two of the three
\* mutexes at once, and under fair scheduling every call of a method of the
\* handle that takes a mutex returns.
C30_DeadlockFree ==
    /\ [](\A c \in Callers : Cardinality(held[c]) <= 1)
    /\ \A c \in Callers : (pc[c] # "idle") ~> (pc[c] = "idle")

\* A thread in get_level waits for the mutex of current_level while a thread
\* in update_level holds it.
C30_Witness ==
    \E c, d \in Callers :
        /\ pc[c] = "glevel_wait"
        /\ pc[d] = "ulevel_in"
        /\ held[d] = {"current_level"}

====
